---- MODULE Spec2Model ----
(***************************************************************************)
(* A model of relibc's dynamic loader, src/ld_so/linker.rs.                *)
(*                                                                         *)
(* Two specifications share the module:                                    *)
(*   Spec      the Object Store and the Dependency Resolver                *)
(*             (Linker::new, load, load_data, load_library);               *)
(*   SpecLink  Linker::link run on a store the loader has filled.          *)
(*                                                                         *)
(* Strings are sequences of tokens: a token is a run of characters that     *)
(* holds none of '/', PATH_SEP and NUL, or one of these three characters.   *)
(* File bytes are named blobs; Elf::parse is the table that gives a blob's  *)
(* parsed view.                                                             *)
(***************************************************************************)
EXTENDS Integers, Sequences, FiniteSets, TLC

VARIABLES
    library_path,   \* Linker.library_path
    objects,        \* Linker.objects: name -> bytes (a blob)
    stack,          \* the pending load_data activations, innermost last
    result,         \* what the last finished public call returned
    call,           \* the public call in progress, or the last one
    objs0,          \* objects when that call started
    again,          \* that call repeats the call before it, which returned Ok
    fslog,          \* the file system operations of that call, in order
    inslog,         \* the names that call has inserted, in order
    loaded          \* the keys of objects, in the order of their first insert

loadVars == <<library_path, objects, stack, result, call, objs0, again, fslog,
              inslog, loaded>>

VARIABLES
    primary,        \* the argument of link
    pc,             \* the phase link is in; "idle" before the call, "done" after
    oi,             \* the position of its loop over elfs (a BTreeMap: name order)
    hi,             \* the position of the inner loop, over headers or relocations
    tls_primary,    \* link's locals, as named in the source
    tls_size,
    mmaps,
    globals,
    tls,
    tls_offset,
    tls_index,
    tls_ranges,
    entry_opt,
    ret,            \* what link returned
    events          \* what link did to the address space, in order

linkVars == <<primary, pc, oi, hi, tls_primary, tls_size, mmaps, globals, tls,
              tls_offset, tls_index, tls_ranges, entry_opt, ret, events>>

----------------------------------------------------------------------------
(* The records of the model *)

\* A Result: Ok(()) or Err(Error::Malformed(..)), the error by its kind.
Err(kind, arg) == [kind |-> kind, arg |-> arg]
Ok == Err("Ok", << >>)
Pending == Err("Pending", << >>)

\* One activation of load_data: its arguments, and the index in
\* elf.libraries its loop is at.
Frame(name, data, lib) == [name |-> name, data |-> data, lib |-> lib]
NoFrame == Frame(<< >>, "none", 0)

\* One file system operation: unistd::access or File::open of a path, made
\* for a name, at component idx of the search path (0: no search).
FsOp(op, path, name, idx) == [name |-> name, op |-> op, path |-> path, idx |-> idx]

\* What the straight-line part of a call comes to: an error, or the
\* load_data activation it enters; and the file system log after it.
Outcome(err, frame, log) == [err |-> err, frame |-> frame, log |-> log]

\* What the search loop of load_library comes to.
Located(found, err, path, log) ==
    [path |-> path, err |-> err, log |-> log, found |-> found]

\* A public call.
CallOf(op, name, arg) == [arg |-> arg, name |-> name, op |-> op]

\* goblin's ProgramHeader, Sym and Reloc, the fields link reads. r_addend is
\* an Option: << >> for None, <<v>> for Some(v).
Ph(p_type, p_flags, p_offset, p_vaddr, p_filesz, p_memsz, p_align) ==
    [p_type |-> p_type, p_flags |-> p_flags, p_offset |-> p_offset,
     p_vaddr |-> p_vaddr, p_filesz |-> p_filesz, p_memsz |-> p_memsz,
     p_align |-> p_align]
Sym(st_name, st_bind, st_value) ==
    [st_name |-> st_name, st_bind |-> st_bind, st_value |-> st_value]
Rel(r_type, r_sym, r_offset, r_addend) ==
    [r_type |-> r_type, r_sym |-> r_sym, r_offset |-> r_offset,
     r_addend |-> r_addend]

\* A slice made of a mapping: where mmap put it, and its length.
Region(base, size) == [base |-> base, size |-> size]

\* An entry of tls_ranges: (index, start..end); valign is the size of the
\* slot the range was placed by.
TlsRange(index, start, end, valign) ==
    [index |-> index, start |-> start, end |-> end, valign |-> valign]

\* What link returned: Ok(addr), or an error by its kind.
Ret(kind, addr) == [kind |-> kind, addr |-> addr]

\* One effect of link on the address space, made for object obj in a phase:
\*   mmap      a mapping of len bytes at address at, protection val
\*   tcb       the word val stored at address at (the start of the TCB)
\*   setfs     the thread pointer set to address at
\*   copy      len bytes of the file, from offset val, copied to address at
\*   tlscopy   the same, into the TLS slice
\*   store     the 64-bit value val stored at address at
\*   fault     the store of the 64-bit value val at address at faulted
\*   mprotect  protection val set on len bytes at address at
\*   call      the resolver at address at called; it returned val (0 where
\*             the call faulted)
Ev(phase, what, obj, at, len, val) ==
    [phase |-> phase, what |-> what, obj |-> obj, at |-> at, len |-> len,
     val |-> val]

----------------------------------------------------------------------------
(* Strings *)

PATH_SEP == ":"

HasSlash(s) == \E i \in DOMAIN s : s[i] = "/"

\* CString::new fails on an interior NUL byte.
HasNul(s) == \E i \in DOMAIN s : s[i] = "NUL"

RECURSIVE SplitAcc(_, _, _)
SplitAcc(s, cur, acc) ==
    IF s = <<>> THEN Append(acc, cur)
    ELSE IF Head(s) = PATH_SEP
         THEN SplitAcc(Tail(s), <<>>, Append(acc, cur))
         ELSE SplitAcc(Tail(s), Append(cur, Head(s)), acc)

\* str::split(PATH_SEP): the empty string gives one empty component.
Split(s) == SplitAcc(s, <<>>, <<>>)

\* format!("./{}", name) and format!("{}/{}", part, name)
PathOf(part, name) ==
    IF part = <<>> THEN <<".", "/">> \o name ELSE part \o <<"/">> \o name

----------------------------------------------------------------------------
(* The files and their contents *)

\* DT_NEEDED of each blob, in order (elf.libraries); "BAD" does not parse.
Libraries(data) ==
    CASE data = "A1" -> << <<"b">>, <<"c">> >>
      [] data = "A2" -> << <<"q", "/", "c">>, <<"b">> >>
      [] data = "B1" -> << <<"c">> >>
      [] data = "X1" -> << <<"c">>, <<"m">> >>
      [] OTHER      -> << >>

ParseOk(data) == data # "BAD"

LoadBlobs == {"A1", "A2", "B1", "C1", "C2", "X1", "BAD"}

\* The file system: the blob a path holds, "noperm" for a file that exists
\* and cannot be opened, "dir" for one that opens and cannot be read, "none".
FileAt(path) ==
    CASE path = <<".", "/", "a">> -> "A1"
      [] path = <<"p", "/", "b">> -> "B1"
      [] path = <<"p", "/", "c">> -> "C1"
      [] path = <<"q", "/", "c">> -> "C2"
      [] path = <<".", "/", "c">> -> "C2"
      [] path = <<"q", "/", "x">> -> "X1"
      [] path = <<"q", "/", "b">> -> "BAD"
      [] path = <<"p", "/", "x">> -> "noperm"
      [] path = <<"q">>           -> "dir"
      [] OTHER                    -> "none"

Exists(path) == FileAt(path) # "none"

SearchPaths == { <<"p", ":", "q">>, <<"q", ":", "p">>, << >>, <<":", "p">> }

TopNames == { <<"a">>, <<"c">> }
TopPaths == { <<".", "/", "a">>, <<"q", "/", "c">>, <<"p", "/", "c">>,
              <<"q">>, <<"p", "/", "x">>, <<"p", "NUL">> }
LibNames == { <<"b">>, <<"c">>, <<"x">>, <<"m">>, <<"q", "/", "c">>,
              <<"c", "NUL">> }
TopBlobs == {"A1", "A2", "C1", "X1", "BAD"}

----------------------------------------------------------------------------
(* Linker::load_data, its entry: Elf::parse(&data)?, then the loop over      *)
(* elf.libraries starts at the first library.                               *)
EnterLoadData(name, data, log) ==
    IF ParseOk(data)
    THEN Outcome(Ok, Frame(name, data, 1), log)
    ELSE Outcome(Err("ParseFailed", name), NoFrame, log)

(* Linker::load: CString::new(path), File::open, read_to_end, load_data.    *)
Load(name, path, log) ==
    IF HasNul(path)
    THEN Outcome(Err("InvalidPath", path), NoFrame, log)
    ELSE LET log1 == Append(log, FsOp("open", path, name, 0)) IN
         IF FileAt(path) \in {"none", "noperm"}
         THEN Outcome(Err("OpenFailed", path), NoFrame, log1)
         ELSE IF FileAt(path) = "dir"
         THEN Outcome(Err("ReadFailed", path), NoFrame, log1)
         ELSE EnterLoadData(name, FileAt(path), log1)

\* Locate as it would be if the loop lacked the return of line 157 and
\* went on to the last component that has the file.
RECURSIVE LocateLast(_, _, _, _)
LocateLast(name, parts, i, log) ==
    IF i > Len(parts)
    THEN Located(FALSE, Err("NotFound", name), << >>, log)
    ELSE LET path == PathOf(parts[i], name)
             log1 == Append(log, FsOp("access", path, name, i))
             rest == LocateLast(name, parts, i + 1, log1)
         IN  IF Exists(path) /\ ~rest.found
             THEN Located(TRUE, Ok, path, log1)
             ELSE rest

(* Linker::load_library, the loop over library_path.split(PATH_SEP) from    *)
(* component i on: the first component whose path exists, or the error of   *)
(* line 161.                                                                *)
RECURSIVE Locate(_, _, _, _)
Locate(name, parts, i, log) ==
    IF i > Len(parts)
    THEN Located(FALSE, Err("NotFound", name), << >>, log)
    ELSE LET path == PathOf(parts[i], name) IN
         IF HasNul(path)
         THEN Located(FALSE, Err("InvalidPath", path), path, log)
         ELSE LET log1 == Append(log, FsOp("access", path, name, i)) IN
              IF Exists(path)
              THEN Located(TRUE, Ok, path, log1)
              ELSE Locate(name, parts, i + 1, log1)

(* Linker::load_library *)
LoadLibrary(name, path_str, log) ==
    IF HasSlash(name)
    THEN Load(name, name, log)
    ELSE LET loc == Locate(name, Split(path_str), 1, log) IN
         IF loc.found
         THEN Load(name, loc.path, loc.log)
         ELSE Outcome(loc.err, NoFrame, loc.log)

\* Insert as insert-if-absent: the bytes are stored only under a name that
\* is absent.
InsertIfAbsent(objs, name, data) ==
    [n \in (DOMAIN objs) \cup {name} |-> IF n \in DOMAIN objs THEN objs[n] ELSE data]

(* self.objects.insert(name.to_string(), data): BTreeMap::insert replaces   *)
(* the value of a key that is present.                                      *)
Insert(objs, name, data) ==
    [n \in (DOMAIN objs) \cup {name} |-> IF n = name THEN data ELSE objs[n]]

\* ContainsKey gone wrong: the test of line 121 without its negation's
\* operand, every library counts as loaded.
ContainsKeyAlways(objs, name) == TRUE

\* ContainsKey as it would be were no key ever found.
ContainsKeyNever(objs, name) == FALSE

(* self.objects.contains_key(&library.to_string()) *)
ContainsKey(objs, name) == name \in DOMAIN objs

\* LoadDataResult gone wrong: a name that was present is reported as an error.
LoadDataResultOnce(objs, name) ==
    IF name \in DOMAIN objs THEN Err("AlreadyLoaded", name) ELSE Ok

(* load_data returns Ok(()) after the insert, whatever the store held.      *)
LoadDataResult(objs, name) == Ok

----------------------------------------------------------------------------
(* The loader's state machine *)

Idle == stack = << >>

Top == stack[Len(stack)]

EmptyStore == [n \in {} |-> "none"]

\* The locals of link before the call.
LinkIdle ==
    /\ primary = << >>
    /\ pc = "idle"
    /\ oi = 1
    /\ hi = 1
    /\ tls_primary = 0
    /\ tls_size = 0
    /\ mmaps = EmptyStore
    /\ globals = EmptyStore
    /\ tls = Region(0, 0)
    /\ tls_offset = 0
    /\ tls_index = 0
    /\ tls_ranges = EmptyStore
    /\ entry_opt = << >>
    /\ ret = Ret("Pending", 0)
    /\ events = << >>

InitLoad ==
    /\ LinkIdle
    /\ library_path \in SearchPaths
    /\ objects = EmptyStore
    /\ stack = << >>
    /\ result = Ok
    /\ call = CallOf("new", << >>, << >>)
    /\ objs0 = EmptyStore
    /\ again = FALSE
    /\ fslog = << >>
    /\ inslog = << >>
    /\ loaded = << >>

\* A public call starts: r is what its straight-line part came to.
Begin(c, r) ==
    /\ Idle
    /\ call' = c
    /\ objs0' = objects
    /\ again' = (c = call /\ result = Ok)
    /\ fslog' = r.log
    /\ IF r.err = Ok
       THEN stack' = <<r.frame>> /\ result' = Pending
       ELSE stack' = << >> /\ result' = r.err
    /\ inslog' = << >>
    /\ UNCHANGED <<library_path, objects, loaded>>
    /\ UNCHANGED linkVars

CallLoad(name, path) ==
    Begin(CallOf("load", name, path), Load(name, path, << >>))

CallLoadData(name, data) ==
    Begin(CallOf("load_data", name, <<data>>),
          EnterLoadData(name, data, << >>))

CallLoadLibrary(name) ==
    Begin(CallOf("load_library", name, << >>),
          LoadLibrary(name, library_path, << >>))

\* load_data, line 121: the library is in the store, the loop moves on.
LoadDataSkip ==
    /\ ~Idle
    /\ Top.lib <= Len(Libraries(Top.data))
    /\ ContainsKey(objects, Libraries(Top.data)[Top.lib])
    /\ stack' = [stack EXCEPT ![Len(stack)].lib = @ + 1]
    /\ UNCHANGED <<library_path, objects, result, call, objs0, again, fslog,
                   inslog, loaded>>
    /\ UNCHANGED linkVars

\* load_data, line 122: load_library(library) reaches a nested load_data.
LoadDataRecurse ==
    /\ ~Idle
    /\ Top.lib <= Len(Libraries(Top.data))
    /\ ~ContainsKey(objects, Libraries(Top.data)[Top.lib])
    /\ LET r == LoadLibrary(Libraries(Top.data)[Top.lib], library_path, fslog) IN
         /\ r.err = Ok
         /\ stack' = Append(stack, r.frame)
         /\ fslog' = r.log
    /\ UNCHANGED <<library_path, objects, result, call, objs0, again, inslog,
                   loaded>>
    /\ UNCHANGED linkVars

\* load_data, line 122: load_library(library)? fails; every caller returns
\* the error in turn, none of them inserts.
LoadDataFail ==
    /\ ~Idle
    /\ Top.lib <= Len(Libraries(Top.data))
    /\ ~ContainsKey(objects, Libraries(Top.data)[Top.lib])
    /\ LET r == LoadLibrary(Libraries(Top.data)[Top.lib], library_path, fslog) IN
         /\ r.err # Ok
         /\ stack' = << >>
         /\ result' = r.err
         /\ fslog' = r.log
    /\ UNCHANGED <<library_path, objects, call, objs0, again, inslog, loaded>>
    /\ UNCHANGED linkVars

\* load_data, lines 127-129: the loop is over; insert and return Ok(()) to
\* the caller, whose own loop moves on.
LoadDataInsert ==
    /\ ~Idle
    /\ Top.lib > Len(Libraries(Top.data))
    /\ objects' = Insert(objects, Top.name, Top.data)
    /\ stack' = IF Len(stack) = 1 \/ LoadDataResult(objects, Top.name) # Ok
                THEN << >>
                ELSE [SubSeq(stack, 1, Len(stack) - 1)
                        EXCEPT ![Len(stack) - 1].lib = @ + 1]
    /\ result' = IF Len(stack) = 1 \/ LoadDataResult(objects, Top.name) # Ok
                 THEN LoadDataResult(objects, Top.name) ELSE result
    /\ inslog' = Append(inslog, Top.name)
    /\ loaded' = IF Top.name \in DOMAIN objects THEN loaded
                 ELSE Append(loaded, Top.name)
    /\ UNCHANGED <<library_path, call, objs0, again, fslog>>
    /\ UNCHANGED linkVars

NextLoad ==
    \/ \E name \in TopNames, path \in TopPaths : CallLoad(name, path)
    \/ \E name \in TopNames, data \in TopBlobs : CallLoadData(name, data)
    \/ \E name \in LibNames : CallLoadLibrary(name)
    \/ LoadDataSkip
    \/ LoadDataRecurse
    \/ LoadDataFail
    \/ LoadDataInsert

vars == <<loadVars, linkVars>>

Spec == InitLoad /\ [][NextLoad]_vars

\* A call that has started runs on: load_data takes its next step as long
\* as it has one.
LoadStep == LoadDataSkip \/ LoadDataRecurse \/ LoadDataFail \/ LoadDataInsert

SpecFair == InitLoad /\ [][NextLoad]_vars /\ WF_vars(LoadStep)

----------------------------------------------------------------------------
(* Linker::link: numbers *)

PAGE_SIZE == 4096

\* usize and u64 are 64 bits wide; the model's words are 30 bits wide, so
\* that sums of two words stay TLC integers. Addresses and sizes of the
\* model lie far below the width, as those of a process lie below 2^64.
WORD == 2^30

Wrap(x) == x % WORD

\* program_header::PF_X, PF_W, PF_R and sys_mman::PROT_READ, PROT_WRITE,
\* PROT_EXEC, as bit masks.
PF_X == 1
PF_W == 2
PF_R == 4
PROT_READ == 1
PROT_WRITE == 2
PROT_EXEC == 4

\* flags & bit == bit, for a bit mask of one bit.
HasBit(flags, bit) == (flags \div bit) % 2 = 1

----------------------------------------------------------------------------
(* Linker::link: the objects. Elf::parse gives, of a blob, its program     *)
(* headers, its dynamic symbols (the null symbol first), its relocations   *)
(* (dynrelas, dynrels, pltrelocs chained) and its entry.                   *)

\* A st_name whose dynstrtab.get is None, and one whose get is Some(Err(..)).
NoName == "(none)"
BadName == "(bad)"

NullSym == Sym(NoName, "STB_LOCAL", 0)

ProgramHeaders(data) ==
    CASE data = "HELLO" ->
           << Ph("PT_LOAD", PF_R + PF_X, 0, \h400000, \h1000, \h1000, \h1000) >>
      [] data = "EXE" ->
           << Ph("PT_LOAD", PF_R + PF_X, 0, 0, \h1000, \h1000, \h1000),
              Ph("PT_LOAD", PF_R + PF_W, \h1000, \h1000, \h800, \h1000, \h1000),
              Ph("PT_LOAD", PF_R + PF_W + PF_X, \h1800, \h2000, \h100, \h100, \h1000),
              Ph("PT_TLS", PF_R, \h1000, \h1000, \h20, \h40, \h40),
              Ph("PT_DYNAMIC", PF_R + PF_W, \h1100, \h1100, \h100, \h100, 8) >>
      [] data = "LIB" ->
           << Ph("PT_LOAD", PF_R + PF_X, 0, 0, \h800, \h800, \h1000),
              Ph("PT_LOAD", PF_R + PF_W, \h800, \h1800, \h200, \h400, \h1000),
              Ph("PT_TLS", PF_R, \h800, \h1800, \h10, \h30, \h10) >>
      [] data = "SHARE" ->
           << Ph("PT_LOAD", PF_R + PF_W + PF_X, 0, 0, \h800, \h800, \h800),
              Ph("PT_LOAD", PF_R + PF_W, \h800, \h800, \h400, \h800, \h800) >>
      [] data = "IFUNC" ->
           << Ph("PT_LOAD", PF_R + PF_X, 0, 0, \h800, \h800, \h800),
              Ph("PT_LOAD", PF_R + PF_W, \h800, \h800, \h400, \h800, \h800) >>
      [] data \in {"BADSYM", "BADREL", "WILD"} ->
           << Ph("PT_LOAD", PF_R + PF_W, 0, 0, \h1000, \h1000, \h1000) >>
      [] data = "TEXTREL" ->
           << Ph("PT_LOAD", PF_R + PF_X, 0, 0, \h1000, \h1000, \h1000) >>
      [] data = "TRUNC" ->
           << Ph("PT_LOAD", PF_R + PF_W, \h800, 0, \h1000, \h1000, \h1000) >>
      [] data = "LONG" ->
           << Ph("PT_LOAD", PF_R + PF_W, 0, 0, \h1800, \h800, \h1000) >>
      [] data = "BIGTLS" ->
           << Ph("PT_LOAD", PF_R + PF_W, 0, 0, \h1000, \h1000, \h1000),
              Ph("PT_TLS", PF_R, \h100, \h100, \h10, \h10, \h2000) >>
      [] data = "NOLOAD" ->
           << Ph("PT_TLS", PF_R, 0, 0, \h10, \h10, \h10),
              Ph("PT_DYNAMIC", PF_R + PF_W, \h100, \h100, \h100, \h100, 8) >>
      [] OTHER -> << >>

Dynsyms(data) ==
    CASE data = "EXE" ->
           << NullSym,
              Sym("foo", "STB_GLOBAL", \h100),
              Sym("bar", "STB_GLOBAL", 0),
              Sym("loc", "STB_LOCAL", \h200) >>
      [] data = "LIB" ->
           << NullSym,
              Sym("foo", "STB_GLOBAL", \h300),
              Sym("bar", "STB_GLOBAL", \h400),
              Sym(NoName, "STB_GLOBAL", \h500) >>
      [] data = "SHARE" ->
           << NullSym, Sym("sh", "STB_GLOBAL", \h80),
              Sym("far", "STB_GLOBAL", \h5000) >>
      [] data = "BADSYM" ->
           << NullSym, Sym(BadName, "STB_GLOBAL", \h10) >>
      [] data = "BADREL" ->
           << NullSym, Sym(NoName, "STB_LOCAL", \h10) >>
      [] OTHER -> << NullSym >>

Relocs(data) ==
    CASE data = "EXE" ->
           << Rel("R_X86_64_JUMP_SLOT", 2, \h1000, <<0>>),
              Rel("R_X86_64_RELATIVE", 0, \h1010, <<\h1234>>),
              Rel("R_X86_64_IRELATIVE", 0, \h1020, <<\h200>>),
              Rel("R_X86_64_COPY", 3, \h1030, <<0>>) >>
      [] data = "LIB" ->
           << Rel("R_X86_64_GLOB_DAT", 1, \h1800, << >>),
              Rel("R_X86_64_IRELATIVE", 0, \h1808, <<\h100>>),
              Rel("R_X86_64_TPOFF64", 0, \h1810, <<8>>),
              Rel("R_X86_64_64", 2, \h1818, <<4>>) >>
      [] data = "SHARE" ->
           << Rel("R_X86_64_GLOB_DAT", 2, \h900, << >>) >>
      [] data = "IFUNC" ->
           << Rel("R_X86_64_IRELATIVE", 0, \h900, <<\h100>>) >>
      [] data = "BADREL" ->
           << Rel("R_X86_64_COPY", 1, \h20, <<0>>) >>
      [] data = "WILD" ->
           << Rel("R_X86_64_RELATIVE", 0, \h1000000, <<\h10>>) >>
      [] data = "TEXTREL" ->
           << Rel("R_X86_64_RELATIVE", 0, \h800, <<\h20>>),
              Rel("R_X86_64_IRELATIVE", 0, \h900, <<\h100>>) >>
      [] OTHER -> << >>

\* elf.header.e_entry
Entry(data) ==
    CASE data = "HELLO" -> \h400040
      [] data = "EXE" -> \h40
      [] data = "LIB" -> 0
      [] data \in {"SHARE", "IFUNC", "TEXTREL"} -> \h10
      [] OTHER -> 0

\* object.len(), the length of the file
FileLen(data) ==
    CASE data = "HELLO" -> \h1000
      [] data = "EXE" -> \h2000
      [] data = "LIB" -> \h1000
      [] data \in {"SHARE", "IFUNC", "BIGTLS", "BADSYM", "BADREL", "TRUNC",
                   "WILD", "TEXTREL"} ->
           \h1000
      [] data = "LONG" -> \h2000
      [] OTHER -> \h200

LinkBlobs ==
    {"HELLO", "EXE", "LIB", "SHARE", "IFUNC", "BIGTLS", "NOLOAD", "BADSYM",
     "BADREL", "TRUNC", "LONG", "WILD", "TEXTREL"}

----------------------------------------------------------------------------
(* Linker::link: the order of a BTreeMap<String, _>, which is the byte      *)
(* order of its keys.                                                       *)

\* The characters of the model's strings, in byte order.
Alphabet == <<"NUL", ".", "/", ":", "a", "b", "c", "m", "p", "q", "x">>

Rank(ch) == CHOOSE k \in DOMAIN Alphabet : Alphabet[k] = ch

\* <str as Ord>::cmp, as less-than
RECURSIVE StrLt(_, _)
StrLt(x, y) ==
    IF y = << >> THEN FALSE
    ELSE IF x = << >> THEN TRUE
    ELSE IF Head(x) = Head(y) THEN StrLt(Tail(x), Tail(y))
    ELSE Rank(Head(x)) < Rank(Head(y))

\* The keys of a BTreeMap in iteration order.
RECURSIVE SortedKeys(_)
SortedKeys(keys) ==
    IF keys = {} THEN << >>
    ELSE LET least == CHOOSE k \in keys : \A o \in keys \ {k} : StrLt(k, o)
         IN  <<least>> \o SortedKeys(keys \ {least})

----------------------------------------------------------------------------
(* Linker::link: the computations of its phases *)

\* voff, vaddr and vsize of a program header (lines 193-195).
Voff(ph) == ph.p_vaddr % PAGE_SIZE
Vaddr(ph) == ph.p_vaddr - Voff(ph)
Vsize(ph) ==
    ((ph.p_memsz + Voff(ph) + PAGE_SIZE - 1) \div PAGE_SIZE) * PAGE_SIZE

\* bounds_opt after the headers from i on (lines 191-211): << >> for None,
\* <<lo, hi>> for Some((lo, hi)).
RECURSIVE BoundsFrom(_, _, _)
BoundsFrom(phs, i, acc) ==
    IF i > Len(phs) THEN acc
    ELSE IF phs[i].p_type # "PT_LOAD" THEN BoundsFrom(phs, i + 1, acc)
    ELSE LET lo == Vaddr(phs[i])
             up == Vaddr(phs[i]) + Vsize(phs[i])
         IN  IF acc = << >> THEN BoundsFrom(phs, i + 1, <<lo, up>>)
             ELSE BoundsFrom(phs, i + 1,
                     << IF lo < acc[1] THEN lo ELSE acc[1],
                        IF up > acc[2] THEN up ELSE acc[2] >>)

Bounds(phs) == BoundsFrom(phs, 1, << >>)

\* What the PT_TLS headers from i on add to tls_size (line 214).
RECURSIVE TlsVsizeFrom(_, _)
TlsVsizeFrom(phs, i) ==
    IF i > Len(phs) THEN 0
    ELSE (IF phs[i].p_type = "PT_TLS" THEN Vsize(phs[i]) ELSE 0)
         + TlsVsizeFrom(phs, i + 1)

TlsVsize(phs) == TlsVsizeFrom(phs, 1)

\* valign of a PT_TLS header (lines 319-323).
Valign(ph) ==
    IF ph.p_align > 0
    THEN ((ph.p_memsz + (ph.p_align - 1)) \div ph.p_align) * ph.p_align
    ELSE ph.p_memsz

\* prot of a PT_LOAD header (lines 448-459): W ^ X.
ProtOfFlags(p_flags) ==
    (IF HasBit(p_flags, PF_R) THEN PROT_READ ELSE 0)
    + (IF HasBit(p_flags, PF_X) THEN PROT_EXEC
       ELSE IF HasBit(p_flags, PF_W) THEN PROT_WRITE ELSE 0)

\* globals.insert(name, value): BTreeMap::insert replaces.
GlobalsInsert(g, name, value) ==
    [n \in (DOMAIN g) \cup {name} |-> IF n = name THEN value ELSE g[n]]

\* The scan with the st_value entered as it is, the base left out.
RECURSIVE ScanGlobalsNoBase(_, _, _, _)
ScanGlobalsNoBase(g, syms, i, base) ==
    IF i > Len(syms) THEN [good |-> TRUE, table |-> g]
    ELSE IF syms[i].st_bind = "STB_GLOBAL" /\ syms[i].st_value # 0
              /\ syms[i].st_name # NoName
         THEN IF syms[i].st_name = BadName
              THEN [good |-> FALSE, table |-> g]
              ELSE ScanGlobalsNoBase(
                     GlobalsInsert(g, syms[i].st_name, syms[i].st_value),
                     syms, i + 1, base)
         ELSE ScanGlobalsNoBase(g, syms, i + 1, base)

\* The scan of dynsyms from i on (lines 251-260), for a mapping at base:
\* the globals after it, and whether a name failed to decode (name_res?).
RECURSIVE ScanGlobals(_, _, _, _)
ScanGlobals(g, syms, i, base) ==
    IF i > Len(syms) THEN [good |-> TRUE, table |-> g]
    ELSE IF syms[i].st_bind = "STB_GLOBAL" /\ syms[i].st_value # 0
              /\ syms[i].st_name # NoName
         THEN IF syms[i].st_name = BadName
              THEN [good |-> FALSE, table |-> g]
              ELSE ScanGlobals(
                     GlobalsInsert(g, syms[i].st_name, Wrap(base + syms[i].st_value)),
                     syms, i + 1, base)
         ELSE ScanGlobals(g, syms, i + 1, base)

----------------------------------------------------------------------------
(* Linker::link: the state machine *)

\* The addresses mmap may return: NumBases regions, far enough apart to
\* hold any mapping of the model.
NumBases == 3

BaseOf(k) == k * (2^24)

UsedBases ==
    {mmaps[n].base : n \in DOMAIN mmaps}
        \cup (IF pc \in {"idle", "map", "tls"} THEN {} ELSE {tls.base})

FreeBases == {BaseOf(k) : k \in 1..NumBases} \ UsedBases

\* The values an IRELATIVE resolver may return.
ResolverRets == {\h1100, \h2200}

\* elfs iterated in the order the keys were inserted in.
OrderLoaded == loaded

\* elfs in iteration order, and the object the outer loop is at.
Order == SortedKeys(DOMAIN objects)
Cur == Order[oi]
CurPhs == ProgramHeaders(objects[Cur])
CurRels == Relocs(objects[Cur])
CurSyms == Dynsyms(objects[Cur])
CurBase == mmaps[Cur].base

PhsAt(o) == ProgramHeaders(objects[Order[o]])
RelsAt(o) == Relocs(objects[Order[o]])
Mapped(o) == Order[o] \in DOMAIN mmaps

\* Where control is after the loops have passed over what they do nothing
\* for: an object without a mapping (continue), a header of another type,
\* a relocation of another type in the second pass, the end of a loop.
RECURSIVE Norm(_, _, _)

\* The relocation loop entered as soon as one object is copied.
CopyEndEarly(o) == Norm("reloc", 1, 1)

\* The copy loop after the last header of object o: the next object
\* (line 273).
CopyEnd(o) == Norm("copy", o + 1, 1)

Norm(p, o, h) ==
    CASE p = "map" ->
           IF o > Len(Order) THEN <<"tls", 1, 1>> ELSE <<p, o, h>>
      [] p = "copy" ->
           IF o > Len(Order) THEN Norm("reloc", 1, 1)
           ELSE IF ~Mapped(o) THEN Norm("copy", o + 1, 1)
           ELSE IF h > Len(PhsAt(o)) THEN CopyEnd(o)
           ELSE IF PhsAt(o)[h].p_type \notin {"PT_LOAD", "PT_TLS"}
                THEN Norm("copy", o, h + 1)
           ELSE <<p, o, h>>
      [] p = "reloc" ->
           IF o > Len(Order) THEN Norm("entry", 1, 1)
           ELSE IF ~Mapped(o) THEN Norm("reloc", o + 1, 1)
           ELSE IF h > Len(RelsAt(o)) THEN Norm("protect", o, 1)
           ELSE <<p, o, h>>
      [] p = "protect" ->
           IF h > Len(PhsAt(o)) THEN Norm("reloc", o + 1, 1)
           ELSE IF PhsAt(o)[h].p_type # "PT_LOAD" THEN Norm("protect", o, h + 1)
           ELSE <<p, o, h>>
      [] p = "entry" ->
           IF o > Len(Order) THEN <<"return", 1, 1>>
           ELSE IF ~Mapped(o) THEN Norm("entry", o + 1, 1)
           ELSE <<p, o, h>>
      [] p = "irel" ->
           IF h > Len(RelsAt(o)) THEN Norm("reprotect", o, 1)
           ELSE IF RelsAt(o)[h].r_type # "R_X86_64_IRELATIVE"
                THEN Norm("irel", o, h + 1)
           ELSE <<p, o, h>>
      [] p = "reprotect" ->
           IF h > Len(PhsAt(o)) THEN Norm("entry", o + 1, 1)
           ELSE IF PhsAt(o)[h].p_type # "PT_LOAD" THEN Norm("reprotect", o, h + 1)
           ELSE <<p, o, h>>
      [] OTHER -> <<p, o, h>>

Goto(p, o, h) ==
    LET n == Norm(p, o, h)
    IN  /\ pc' = n[1]
        /\ oi' = n[2]
        /\ hi' = n[3]

\* The error is noted and the loop goes on.
FailAndGoOn(kind) ==
    /\ ret' = Ret(kind, 0)
    /\ UNCHANGED <<pc, oi, hi>>

\* return Err(Error::Malformed(..)): link is over.
Fail(kind) ==
    /\ pc' = "done"
    /\ ret' = Ret(kind, 0)
    /\ UNCHANGED <<oi, hi>>

loadGhosts == <<library_path, stack, result, call, objs0, again, fslog,
                inslog, loaded>>

\* link(primary): every stored object parses again (load_data stored only
\* bytes that parse), and the first loop starts.
LinkCall(p) ==
    /\ pc = "idle"
    /\ Idle
    /\ primary' = p
    /\ Goto("map", 1, 1)
    /\ UNCHANGED <<tls_primary, tls_size, mmaps, globals, tls, tls_offset,
                   tls_index, tls_ranges, entry_opt, ret, events>>
    /\ UNCHANGED <<objects, loadGhosts>>

\* The PT_TLS sizes of the object are added up whatever becomes of it.
AddTls ==
    /\ tls_size' = tls_size + TlsVsize(CurPhs)
    /\ tls_primary' = tls_primary + (IF Cur = primary THEN TlsVsize(CurPhs) ELSE 0)

\* First loop, an object without PT_LOAD: continue (line 224).
MapSkip ==
    /\ pc = "map"
    /\ Bounds(CurPhs) = << >>
    /\ AddTls
    /\ Goto("map", oi + 1, 1)
    /\ UNCHANGED <<primary, mmaps, globals, tls, tls_offset, tls_index,
                   tls_ranges, entry_opt, ret, events>>
    /\ UNCHANGED <<objects, loadGhosts>>

\* First loop: mmap returns MAP_FAILED (lines 241-245).
MapFail ==
    /\ pc = "map"
    /\ Bounds(CurPhs) # << >>
    /\ AddTls
    /\ Fail("MapFailed")
    /\ UNCHANGED <<primary, mmaps, globals, tls, tls_offset, tls_index,
                   tls_ranges, entry_opt, events>>
    /\ UNCHANGED <<objects, loadGhosts>>

\* The size of the mapping had lo been subtracted.
MapSizeSpan(bounds) == bounds[2] - bounds[1]

\* let size = bounds.1 /* - bounds.0 */ (line 231)
MapSize(bounds) == bounds[2]

\* First loop: the object is mapped (size bounds.1, READ|WRITE) and its
\* globals are scanned (lines 230-262).
MapObject ==
    /\ pc = "map"
    /\ Bounds(CurPhs) # << >>
    /\ AddTls
    /\ \E base \in FreeBases :
         LET size == MapSize(Bounds(CurPhs))
             scan == ScanGlobals(globals, CurSyms, 1, base)
         IN  /\ events' = Append(events, Ev("map", "mmap", Cur, base, size,
                                            PROT_READ + PROT_WRITE))
             /\ IF scan.good
                THEN /\ globals' = scan.table
                     /\ mmaps' = GlobalsInsert(mmaps, Cur, Region(base, size))
                     /\ Goto("map", oi + 1, 1)
                     /\ UNCHANGED ret
                ELSE /\ Fail("ParseFailed")
                     /\ UNCHANGED <<globals, mmaps>>
    /\ UNCHANGED <<primary, tls, tls_offset, tls_index, tls_ranges, entry_opt>>
    /\ UNCHANGED <<objects, loadGhosts>>

\* The first word of the TCB set to the start of the TLS.
TcbWordStart(base, size) == base

\* tls.as_mut_ptr().add(size) (line 42)
TcbWord(base, size) == base + size

\* allocate_tls(tls_size), Linux: one mapping of size + PAGE_SIZE, the TCB
\* in its last page; the first word of the TCB is set to the address of the
\* TCB, and FS to the same address. Then the locals of the copy loop.
AllocTls ==
    /\ pc = "tls"
    /\ \E base \in FreeBases :
         /\ tls' = Region(base, tls_size)
         /\ events' = events \o
              << Ev("tls", "mmap", << >>, base, tls_size + PAGE_SIZE,
                    PROT_READ + PROT_WRITE),
                 Ev("tls", "tcb", << >>, base + tls_size, 8,
                    TcbWord(base, tls_size)),
                 Ev("tls", "setfs", << >>, base + tls_size, 0, 0) >>
    /\ tls_offset' = tls_primary
    /\ tls_index' = 0
    /\ Goto("copy", 1, 1)
    /\ UNCHANGED <<primary, tls_primary, tls_size, mmaps, globals, tls_ranges,
                   entry_opt, ret>>
    /\ UNCHANGED <<objects, loadGhosts>>

\* allocate_tls: mmap returns MAP_FAILED (lines 34-38).
AllocTlsFail ==
    /\ pc = "tls"
    /\ Fail("TlsMapFailed")
    /\ UNCHANGED <<primary, tls_primary, tls_size, mmaps, globals, tls,
                   tls_offset, tls_index, tls_ranges, entry_opt, events>>
    /\ UNCHANGED <<objects, loadGhosts>>

\* The protection of the page of address x after the first i events: that
\* of the last mmap or mprotect whose range holds x, 0 before any.
RECURSIVE ProtFrom(_, _, _)
ProtFrom(evs, i, x) ==
    IF i = 0 THEN 0
    ELSE IF evs[i].what \in {"mmap", "mprotect"}
              /\ evs[i].at <= x /\ x < evs[i].at + evs[i].len
         THEN evs[i].val
         ELSE ProtFrom(evs, i - 1, x)

ProtAt(evs, x) == ProtFrom(evs, Len(evs), x)

\* The header the copy and protect loops are at.
CurPh == CurPhs[hi]

\* object.get(ph.file_range()) is Some (lines 296, 327).
FileHas(ph) == ph.p_offset + ph.p_filesz <= FileLen(objects[Cur])

\* Copy loop, PT_LOAD: the file range is copied to p_vaddr of the mapping
\* (lines 293-317).
CopyLoad ==
    /\ pc = "copy"
    /\ CurPh.p_type = "PT_LOAD"
    /\ FileHas(CurPh)
    /\ CurPh.p_vaddr + CurPh.p_filesz <= mmaps[Cur].size
    /\ events' = Append(events, Ev("copy", "copy", Cur,
                                   Wrap(CurBase + CurPh.p_vaddr),
                                   CurPh.p_filesz, CurPh.p_offset))
    /\ Goto("copy", oi, hi + 1)
    /\ UNCHANGED <<primary, tls_primary, tls_size, mmaps, globals, tls,
                   tls_offset, tls_index, tls_ranges, entry_opt, ret>>
    /\ UNCHANGED <<objects, loadGhosts>>

\* start of the TLS range of the object (lines 336-343); negative where
\* the subtraction of usize underflows.
TlsStart(ph) ==
    IF Cur = primary THEN tls.size - Valign(ph)
    ELSE tls.size - (tls_offset + Valign(ph))

\* Copy loop, PT_TLS: the range is entered in tls_ranges and the file range
\* copied into the TLS slice (lines 318-359).
CopyTls ==
    /\ pc = "copy"
    /\ CurPh.p_type = "PT_TLS"
    /\ FileHas(CurPh)
    /\ TlsStart(CurPh) >= 0
    /\ TlsStart(CurPh) + CurPh.p_filesz <= tls.size
    /\ tls_offset' = IF Cur = primary THEN tls_offset
                     ELSE tls_offset + Vsize(CurPh)
    /\ tls_index' = IF Cur = primary THEN tls_index ELSE tls_index + 1
    /\ tls_ranges' = GlobalsInsert(tls_ranges, Cur,
                        TlsRange(IF Cur = primary THEN 0 ELSE tls_index + 1,
                                 TlsStart(CurPh),
                                 TlsStart(CurPh) + CurPh.p_filesz,
                                 Valign(CurPh)))
    /\ events' = Append(events, Ev("copy", "tlscopy", Cur,
                                   tls.base + TlsStart(CurPh),
                                   CurPh.p_filesz, CurPh.p_offset))
    /\ Goto("copy", oi, hi + 1)
    /\ UNCHANGED <<primary, tls_primary, tls_size, mmaps, globals, tls,
                   entry_opt, ret>>
    /\ UNCHANGED <<objects, loadGhosts>>

\* Copy loop: a range is not inside the file, the mapping or the TLS slice.
\* Where tls.len() - valign underflows, a build with overflow checks
\* panics, and one without gets a range that tls.get_mut refuses.
CopyFail ==
    /\ pc = "copy"
    /\ \E kind \in {"ReadFailed", "WriteFailed", "WriteTlsFailed", "Panic"} :
         /\ \/ kind = "ReadFailed" /\ ~FileHas(CurPh)
            \/ /\ kind = "WriteFailed"
               /\ CurPh.p_type = "PT_LOAD" /\ FileHas(CurPh)
               /\ CurPh.p_vaddr + CurPh.p_filesz > mmaps[Cur].size
            \/ /\ kind = "WriteTlsFailed"
               /\ CurPh.p_type = "PT_TLS" /\ FileHas(CurPh)
               /\ \/ TlsStart(CurPh) < 0
                  \/ TlsStart(CurPh) + CurPh.p_filesz > tls.size
            \/ /\ kind = "Panic"
               /\ CurPh.p_type = "PT_TLS" /\ FileHas(CurPh)
               /\ TlsStart(CurPh) < 0
         /\ Fail(kind)
    /\ UNCHANGED <<primary, tls_primary, tls_size, mmaps, globals, tls,
                   tls_offset, tls_index, tls_ranges, entry_opt, events>>
    /\ UNCHANGED <<objects, loadGhosts>>

\* a of a relocation: rel.r_addend.unwrap_or(0)
Addend(rel) == IF rel.r_addend = << >> THEN 0 ELSE rel.r_addend[1]

\* s of a relocation (lines 385-403): the global of the name of symbol
\* r_sym, 0 for an undefined name and for r_sym = 0; or the error.
SymValue(syms, g, rel) ==
    IF rel.r_sym = 0 THEN Ret("Ok", 0)
    ELSE IF rel.r_sym + 1 > Len(syms) THEN Ret("MissingSymbol", 0)
    ELSE LET name == syms[rel.r_sym + 1].st_name
         IN  IF name = NoName THEN Ret("MissingName", 0)
             ELSE IF name = BadName THEN Ret("ParseFailed", 0)
             ELSE IF name \in DOMAIN g THEN Ret("Ok", g[name])
             ELSE Ret("Ok", 0)

\* t of a relocation (lines 405-409)
TlsStartOf(ranges, name) ==
    IF name \in DOMAIN ranges THEN ranges[name].start ELSE 0

\* The table of the first pass with the base left out of RELATIVE and the
\* TLS start added for TPOFF64.
RelocValueSlip(r_type, s, a, b, t) ==
    CASE r_type = "R_X86_64_64" -> << Wrap(s + a) >>
      [] r_type \in {"R_X86_64_GLOB_DAT", "R_X86_64_JUMP_SLOT"} -> << s >>
      [] r_type = "R_X86_64_RELATIVE" -> << a >>
      [] r_type = "R_X86_64_TPOFF64" -> << Wrap(Wrap(s + a) + t) >>
      [] OTHER -> << >>

\* The table of the first pass with s + a stored for a type it does not
\* list.
RelocValueDefault(r_type, s, a, b, t) ==
    CASE r_type = "R_X86_64_64" -> << Wrap(s + a) >>
      [] r_type \in {"R_X86_64_GLOB_DAT", "R_X86_64_JUMP_SLOT"} -> << s >>
      [] r_type = "R_X86_64_RELATIVE" -> << Wrap(b + a) >>
      [] r_type = "R_X86_64_TPOFF64" -> << Wrap(Wrap(s + a) - t) >>
      [] r_type = "R_X86_64_IRELATIVE" -> << >>
      [] OTHER -> << Wrap(s + a) >>

\* What the first pass stores for a relocation (lines 420-437): <<value>>,
\* or << >> where it stores nothing.
RelocValue(r_type, s, a, b, t) ==
    CASE r_type = "R_X86_64_64" -> << Wrap(s + a) >>
      [] r_type \in {"R_X86_64_GLOB_DAT", "R_X86_64_JUMP_SLOT"} -> << s >>
      [] r_type = "R_X86_64_RELATIVE" -> << Wrap(b + a) >>
      [] r_type = "R_X86_64_TPOFF64" -> << Wrap(Wrap(s + a) - t) >>
      [] OTHER -> << >>

CurRel == CurRels[hi]

\* The processor runs code of pages with PROT_EXEC and stores to pages
\* with PROT_WRITE; anything else is a fault that ends the process.
CanCall(evs, x) == HasBit(ProtAt(evs, x), PROT_EXEC)
CanStore(evs, x) == HasBit(ProtAt(evs, x), PROT_WRITE)

\* set_u64 through the raw pointer (lines 411-418, 509-516): nothing
\* compares r_offset with the mapping, and the 8 bytes are stored wherever
\* mmap.as_mut_ptr().add(r_offset) points, if both ends of them lie in
\* pages with PROT_WRITE.
Storable(evs, x) == CanStore(evs, x) /\ CanStore(evs, Wrap(x + 7))

\* First pass, one relocation (lines 375-438).
RelocStep ==
    /\ pc = "reloc"
    /\ SymValue(CurSyms, globals, CurRel).kind = "Ok"
    /\ LET v == RelocValue(CurRel.r_type,
                           SymValue(CurSyms, globals, CurRel).addr,
                           Addend(CurRel), CurBase,
                           TlsStartOf(tls_ranges, Cur))
       IN  /\ v # << >> => Storable(events, Wrap(CurBase + CurRel.r_offset))
           /\ events' = IF v = << >> THEN events
                        ELSE Append(events, Ev("reloc", "store", Cur,
                                       Wrap(CurBase + CurRel.r_offset), 8, v[1]))
    /\ Goto("reloc", oi, hi + 1)
    /\ UNCHANGED <<primary, tls_primary, tls_size, mmaps, globals, tls,
                   tls_offset, tls_index, tls_ranges, entry_opt, ret>>
    /\ UNCHANGED <<objects, loadGhosts>>

\* First pass: the store of a relocation faults; link never returns.
RelocFault ==
    /\ pc = "reloc"
    /\ SymValue(CurSyms, globals, CurRel).kind = "Ok"
    /\ LET v == RelocValue(CurRel.r_type,
                           SymValue(CurSyms, globals, CurRel).addr,
                           Addend(CurRel), CurBase,
                           TlsStartOf(tls_ranges, Cur))
       IN  /\ v # << >>
           /\ ~Storable(events, Wrap(CurBase + CurRel.r_offset))
           /\ events' = Append(events, Ev("reloc", "fault", Cur,
                                 Wrap(CurBase + CurRel.r_offset), 8, v[1]))
    /\ Fail("Fault")
    /\ UNCHANGED <<primary, tls_primary, tls_size, mmaps, globals, tls,
                   tls_offset, tls_index, tls_ranges, entry_opt>>
    /\ UNCHANGED <<objects, loadGhosts>>

\* First pass: the symbol of the relocation, or its name, is missing.
RelocFail ==
    /\ pc = "reloc"
    /\ SymValue(CurSyms, globals, CurRel).kind # "Ok"
    /\ Fail(SymValue(CurSyms, globals, CurRel).kind)
    /\ UNCHANGED <<primary, tls_primary, tls_size, mmaps, globals, tls,
                   tls_offset, tls_index, tls_ranges, entry_opt, events>>
    /\ UNCHANGED <<objects, loadGhosts>>

\* Either protect loop, one PT_LOAD (lines 441-480, 528-567); the events of
\* the first loop carry "protect", those of the second "reprotect".
Protect ==
    /\ pc \in {"protect", "reprotect"}
    /\ events' = Append(events, Ev(pc, "mprotect", Cur,
                                   Wrap(CurBase + Vaddr(CurPh)), Vsize(CurPh),
                                   ProtOfFlags(CurPh.p_flags)))
    /\ Goto(pc, oi, hi + 1)
    /\ UNCHANGED <<primary, tls_primary, tls_size, mmaps, globals, tls,
                   tls_offset, tls_index, tls_ranges, entry_opt, ret>>
    /\ UNCHANGED <<objects, loadGhosts>>

\* mprotect returns a negative value (lines 472-476, 559-563).
ProtectFail ==
    /\ pc \in {"protect", "reprotect"}
    /\ Fail("ProtectFailed")
    /\ UNCHANGED <<primary, tls_primary, tls_size, mmaps, globals, tls,
                   tls_offset, tls_index, tls_ranges, entry_opt, events>>
    /\ UNCHANGED <<objects, loadGhosts>>

\* The entry taken as an offset into its page.
EntryInSegment(base, e_entry) == Wrap(base + (e_entry % PAGE_SIZE))

\* mmap.as_mut_ptr() as usize + elf.header.e_entry as usize (line 495)
EntryOf(base, e_entry) == Wrap(base + e_entry)

\* The turn of an object that takes every object for the primary.
EnterObjectAny ==
    /\ pc = "entry"
    /\ entry_opt' = << EntryOf(CurBase, Entry(objects[Cur])) >>
    /\ Goto("irel", oi, 1)
    /\ UNCHANGED <<primary, tls_primary, tls_size, mmaps, globals, tls,
                   tls_offset, tls_index, tls_ranges, ret, events>>
    /\ UNCHANGED <<objects, loadGhosts>>

\* Last loop, the start of an object's turn (lines 486-496).
EnterObject ==
    /\ pc = "entry"
    /\ entry_opt' = IF Cur = primary
                    THEN << EntryOf(CurBase, Entry(objects[Cur])) >>
                    ELSE entry_opt
    /\ Goto("irel", oi, 1)
    /\ UNCHANGED <<primary, tls_primary, tls_size, mmaps, globals, tls,
                   tls_offset, tls_index, tls_ranges, ret, events>>
    /\ UNCHANGED <<objects, loadGhosts>>

\* Second pass, one R_X86_64_IRELATIVE (lines 519-522): the resolver at
\* b + a is called and what it returns is stored.
IrelStep ==
    /\ pc = "irel"
    /\ CanCall(events, Wrap(CurBase + Addend(CurRel)))
    /\ Storable(events, Wrap(CurBase + CurRel.r_offset))
    /\ \E v \in ResolverRets :
         events' = events \o
            << Ev("irel", "call", Cur, Wrap(CurBase + Addend(CurRel)), 0, v),
               Ev("irel", "store", Cur, Wrap(CurBase + CurRel.r_offset), 8, v) >>
    /\ Goto("irel", oi, hi + 1)
    /\ UNCHANGED <<primary, tls_primary, tls_size, mmaps, globals, tls,
                   tls_offset, tls_index, tls_ranges, entry_opt, ret>>
    /\ UNCHANGED <<objects, loadGhosts>>

\* Second pass: the call, or the store after it, faults; link never
\* returns.
IrelFault ==
    /\ pc = "irel"
    /\ \/ /\ ~CanCall(events, Wrap(CurBase + Addend(CurRel)))
          /\ events' = Append(events, Ev("irel", "call", Cur,
                                Wrap(CurBase + Addend(CurRel)), 0, 0))
       \/ /\ CanCall(events, Wrap(CurBase + Addend(CurRel)))
          /\ ~Storable(events, Wrap(CurBase + CurRel.r_offset))
          /\ \E v \in ResolverRets :
                events' = events \o
                   << Ev("irel", "call", Cur,
                         Wrap(CurBase + Addend(CurRel)), 0, v),
                      Ev("irel", "fault", Cur,
                         Wrap(CurBase + CurRel.r_offset), 8, v) >>
    /\ Fail("Fault")
    /\ UNCHANGED <<primary, tls_primary, tls_size, mmaps, globals, tls,
                   tls_offset, tls_index, tls_ranges, entry_opt>>
    /\ UNCHANGED <<objects, loadGhosts>>

\* entry_opt.ok_or(..) (lines 570-572)
Return ==
    /\ pc = "return"
    /\ pc' = "done"
    /\ ret' = IF entry_opt = << >> THEN Ret("MissingEntry", 0)
              ELSE Ret("Ok", entry_opt[1])
    /\ UNCHANGED <<oi, hi>>
    /\ UNCHANGED <<primary, tls_primary, tls_size, mmaps, globals, tls,
                   tls_offset, tls_index, tls_ranges, entry_opt, events>>
    /\ UNCHANGED <<objects, loadGhosts>>

\* The names link is run with: two objects' names, and one of no object.
LinkNames == {<<"a">>, <<"b">>}
Primaries == LinkNames \cup {<<"c">>}

\* The stores load_data(name, blob) calls leave, blob by blob.
Stores ==
    UNION {[names -> LinkBlobs] : names \in SUBSET LinkNames}

\* The orders in which the keys of a store can have been inserted.
InsertOrders(objs) ==
    {q \in UNION {[1..k -> DOMAIN objs] : k \in {Cardinality(DOMAIN objs)}} :
        \A n \in DOMAIN objs : \E i \in DOMAIN q : q[i] = n}

InitLink ==
    /\ LinkIdle
    /\ library_path = << >>
    /\ objects \in Stores
    /\ stack = << >>
    /\ result = Ok
    /\ call = CallOf("new", << >>, << >>)
    /\ objs0 = EmptyStore
    /\ again = FALSE
    /\ fslog = << >>
    /\ inslog = << >>
    /\ loaded \in InsertOrders(objects)

NextLink ==
    \/ \E p \in Primaries : LinkCall(p)
    \/ MapSkip
    \/ MapFail
    \/ MapObject
    \/ AllocTls
    \/ AllocTlsFail
    \/ CopyLoad
    \/ CopyTls
    \/ CopyFail
    \/ RelocStep
    \/ RelocFault
    \/ RelocFail
    \/ Protect
    \/ ProtectFail
    \/ EnterObject
    \/ IrelStep
    \/ IrelFault
    \/ Return

SpecLink == InitLink /\ [][NextLink]_vars

----------------------------------------------------------------------------
(* Claims about the Object Store and the Dependency Resolver (Spec) *)

\* C1: in every state, the middle of a recursive load and the states after a
\* failed call included, each DT_NEEDED name of each stored object is a key
\* of the store.
DepClosed ==
    \A n \in DOMAIN objects :
        \A i \in DOMAIN Libraries(objects[n]) :
            Libraries(objects[n])[i] \in DOMAIN objects

\* C1's case: a nested load_data is active while the store already holds an
\* object that needs libraries.
DepClosedWitness ==
    /\ Len(stack) >= 2
    /\ \E n \in DOMAIN objects : Len(Libraries(objects[n])) > 0

\* The bytes a finished load or load_data call was given.
CallBytes == IF call.op = "load" THEN FileAt(call.arg) ELSE call.arg[1]

\* C7: when load(name, path) returned Ok and the next call is the same
\* load(name, path), that call returns Ok and leaves the store, keys and
\* bytes, as the first call left it.
LoadTwiceSame ==
    (Idle /\ call.op = "load" /\ again) => (result = Ok /\ objects = objs0)

\* C7's case: the second of two equal loads has returned, for an object
\* with dependencies.
LoadTwiceWitness ==
    /\ Idle /\ call.op = "load" /\ again /\ result = Ok
    /\ Len(Libraries(objects[call.name])) > 0

Parts == Split(library_path)

\* One access test of the log is the test of component idx for its name;
\* it follows the failed test of the component before, and is followed by
\* the open of its path when the path exists, by the test of the next
\* component when it does not and a component is left, and by nothing when
\* none is left: then the call has failed with NotFound for that name.
SearchStep(j) ==
    LET e == fslog[j] IN
    /\ e.idx \in 1..Len(Parts)
    /\ e.path = PathOf(Parts[e.idx], e.name)
    /\ e.idx > 1 =>
          /\ j > 1
          /\ fslog[j - 1] = FsOp("access", PathOf(Parts[e.idx - 1], e.name),
                                  e.name, e.idx - 1)
          /\ ~Exists(fslog[j - 1].path)
    /\ e.idx = 1 /\ j > 1 => fslog[j - 1].op = "open"
    /\ Exists(e.path) =>
          /\ j < Len(fslog)
          /\ fslog[j + 1] = FsOp("open", e.path, e.name, 0)
    /\ ~Exists(e.path) /\ e.idx < Len(Parts) =>
          /\ j < Len(fslog)
          /\ fslog[j + 1].op = "access"
    /\ ~Exists(e.path) /\ e.idx = Len(Parts) =>
          /\ j = Len(fslog)
          /\ Idle
          /\ result = Err("NotFound", e.name)

\* Every open of a name without '/' made by load_library is the open of the
\* path tested just before it.
OpenStep(j) ==
    LET e == fslog[j] IN
    (~HasSlash(e.name) /\ (j > 1 \/ call.op = "load_library")) =>
        /\ j > 1
        /\ fslog[j - 1].op = "access"
        /\ fslog[j - 1].path = e.path

SearchInOrder ==
    \A j \in DOMAIN fslog :
        /\ fslog[j].op = "access" => SearchStep(j)
        /\ fslog[j].op = "open" => OpenStep(j)

\* C9: the components of the search path are tested in order, the object is
\* opened at the first one that has the file and no later one is tested or
\* opened; when none has it the call fails with NotFound for that name, and
\* the failing step inserts nothing and drops every pending load_data, so
\* neither the name nor a dependent is stored.
SearchPathResolution ==
    /\ [](SearchInOrder /\ (result.kind = "NotFound" => Idle))
    /\ [][result'.kind = "NotFound" => objects' = objects]_vars

\* C9's case: a library was found and stored from a component that is not
\* the last one to have the file.
SearchPathWitness ==
    /\ Idle /\ result = Ok /\ call.op = "load_library"
    /\ \E j \in DOMAIN fslog :
          /\ fslog[j].op = "access" /\ Exists(fslog[j].path)
          /\ fslog[j].name = call.name
          /\ \E m \in (fslog[j].idx + 1)..Len(Parts) :
                Exists(PathOf(Parts[m], call.name))

----------------------------------------------------------------------------
(* Claims about Linker::link (SpecLink) *)

Returned == pc = "done" /\ ret.kind = "Ok"

\* A symbol that defines its name: binding GLOBAL, st_value # 0, and a name
\* the string table has.
Defines(sym) ==
    /\ sym.st_bind = "STB_GLOBAL"
    /\ sym.st_value # 0
    /\ sym.st_name \notin {NoName, BadName}

\* The names an object defines.
DefinedNames(data) ==
    {Dynsyms(data)[i].st_name :
        i \in {j \in DOMAIN Dynsyms(data) : Defines(Dynsyms(data)[j])}}

\* The names the primary and another mapped object both define.
Collisions ==
    IF primary \notin DOMAIN mmaps THEN {}
    ELSE {name \in DefinedNames(objects[primary]) :
            \E n \in (DOMAIN mmaps) \ {primary} :
                name \in DefinedNames(objects[n])}

\* The address the primary defines a name at.
PrimaryValue(name) ==
    LET syms == Dynsyms(objects[primary])
        i == CHOOSE j \in DOMAIN syms :
                Defines(syms[j]) /\ syms[j].st_name = name
    IN  Wrap(mmaps[primary].base + syms[i].st_value)

\* C2: once the objects are mapped, a name that the primary and another
\* mapped object both define is in the global symbol table with the
\* primary's address, primary_base + st_value, and every GLOB_DAT and
\* JUMP_SLOT relocation of such a name has stored that address.
PrimaryDominates ==
    pc \notin {"idle", "map"} =>
        \A name \in Collisions :
            /\ globals[name] = PrimaryValue(name)
            /\ \A i \in DOMAIN events :
                  (/\ events[i].phase = "reloc"
                   /\ \E r \in DOMAIN Relocs(objects[events[i].obj]) :
                        LET rel == Relocs(objects[events[i].obj])[r]
                            syms == Dynsyms(objects[events[i].obj])
                        IN  /\ rel.r_type \in {"R_X86_64_GLOB_DAT",
                                                "R_X86_64_JUMP_SLOT"}
                            /\ events[i].at =
                                 Wrap(mmaps[events[i].obj].base + rel.r_offset)
                            /\ rel.r_sym > 0 /\ rel.r_sym < Len(syms)
                            /\ syms[rel.r_sym + 1].st_name = name)
                    => events[i].val = PrimaryValue(name)

\* The page addresses of a mapping.
Pages(region) ==
    {region.base + k * PAGE_SIZE : k \in 0..((region.size \div PAGE_SIZE) - 1)}

\* No page of any object's mapping has WRITE and EXEC after the first i
\* events.
NoWriteExec(i) ==
    \A n \in DOMAIN mmaps :
        \A x \in Pages(mmaps[n]) :
            ~(HasBit(ProtFrom(events, i, x), PROT_WRITE)
                /\ HasBit(ProtFrom(events, i, x), PROT_EXEC))

\* The page addresses of a PT_LOAD in a mapping at base.
PagesOf(ph, base) ==
    {base + Vaddr(ph) + k * PAGE_SIZE : k \in 0..((Vsize(ph) \div PAGE_SIZE) - 1)}

\* C3: when link has returned Ok, no page of any object's mapping has both
\* WRITE and EXEC; the same holds at each call of an IRELATIVE resolver; and
\* when link has returned Ok, every page of a PT_LOAD with PF_R|PF_W|PF_X
\* has protection READ|EXEC.
WriteXorExec ==
    /\ Returned => NoWriteExec(Len(events))
    /\ \A i \in DOMAIN events :
          events[i].what = "call" => NoWriteExec(i - 1)
    /\ Returned =>
          \A n \in DOMAIN mmaps :
              \A h \in DOMAIN ProgramHeaders(objects[n]) :
                  LET ph == ProgramHeaders(objects[n])[h] IN
                  (ph.p_type = "PT_LOAD" /\ ph.p_flags = PF_R + PF_W + PF_X)
                      => \A x \in PagesOf(ph, mmaps[n].base) :
                             ProtAt(events, x) = PROT_READ + PROT_EXEC

\* link failed in one of its phases before the entry is looked at.
PhaseFailed ==
    ret.kind \in {"MapFailed", "TlsMapFailed", "ParseFailed", "ReadFailed",
                  "WriteFailed", "WriteTlsFailed", "Panic", "MissingSymbol",
                  "MissingName", "ProtectFailed", "Fault"}

\* The primary is in the store and has a PT_LOAD.
PrimaryLoadable ==
    /\ primary \in DOMAIN objects
    /\ Bounds(ProgramHeaders(objects[primary])) # << >>

\* C4: when link is over and no phase failed, it has returned Ok(B +
\* e_entry) for a primary that is in the store with a PT_LOAD, B the base of
\* its mapping, and the missing-entry error for any other primary; and it
\* never returns an address for a primary without a mapping.
EntryResult ==
    /\ (pc = "done" /\ ~PhaseFailed) =>
          IF PrimaryLoadable
          THEN /\ primary \in DOMAIN mmaps
               /\ ret = Ret("Ok", mmaps[primary].base + Entry(objects[primary]))
          ELSE ret = Ret("MissingEntry", 0)
    /\ ret.kind = "Ok" => (PrimaryLoadable /\ primary \in DOMAIN mmaps)

\* C4's case: link has returned the entry of a primary that is not the last
\* object of the store, after the turn of a later mapped object.
EntryResultWitness ==
    /\ Returned
    /\ \E n \in DOMAIN mmaps : StrLt(primary, n)
    /\ Entry(objects[primary]) # 0

\* The store of the hello-world scenario: the primary alone, one PT_LOAD
\* (R|X, 0x1000 bytes) at 0x400000, e_entry 0x400040, no relocations.
HelloWorld ==
    /\ DOMAIN objects = {primary}
    /\ objects[primary] = "HELLO"

\* C5 as stated: in the hello-world scenario link returns base + 0x40,
\* base the start address of the primary's mapping.
HelloReturnsBasePlus40 ==
    (HelloWorld /\ Returned) => ret.addr = mmaps[primary].base + \h40

\* C5 as amended: in the hello-world scenario link returns base + 0x400040
\* (base + e_entry), base the start address of the primary's mapping, which
\* is 0x401000 bytes long and starts at virtual address 0 of the object.
HelloReturnsBasePlusEntry ==
    (HelloWorld /\ Returned) =>
        /\ ret.addr = mmaps[primary].base + \h400040
        /\ mmaps[primary].size = \h401000
        /\ \E i \in DOMAIN events :
              events[i] = Ev("map", "mmap", primary, mmaps[primary].base,
                             \h401000, PROT_READ + PROT_WRITE)

\* C5's case: link has returned in the hello-world scenario.
HelloWitness == HelloWorld /\ Returned

\* The first protection pass has reached every PT_LOAD of every mapped
\* object within the first i events.
FirstPassDone(i) ==
    \A n \in DOMAIN mmaps :
        \A h \in DOMAIN ProgramHeaders(objects[n]) :
            LET ph == ProgramHeaders(objects[n])[h] IN
            ph.p_type = "PT_LOAD" =>
                \E j \in 1..i :
                    events[j] = Ev("protect", "mprotect", n,
                                   Wrap(mmaps[n].base + Vaddr(ph)), Vsize(ph),
                                   ProtOfFlags(ph.p_flags))

\* The address lies inside a PT_LOAD with PF_X of the object.
InExecSegment(n, x) ==
    \E h \in DOMAIN ProgramHeaders(objects[n]) :
        LET ph == ProgramHeaders(objects[n])[h] IN
        /\ ph.p_type = "PT_LOAD" /\ HasBit(ph.p_flags, PF_X)
        /\ mmaps[n].base + ph.p_vaddr <= x
        /\ x < mmaps[n].base + ph.p_vaddr + ph.p_memsz

\* C6: each call of an IRELATIVE resolver comes after the first protection
\* pass has been applied to every mapped object, and a resolver whose
\* address lies inside a PT_LOAD with PF_X of its object is called on a
\* page with EXEC.
IrelativeOrdering ==
    \A i \in DOMAIN events :
        events[i].what = "call" =>
            /\ FirstPassDone(i - 1)
            /\ InExecSegment(events[i].obj, events[i].at)
                  => HasBit(ProtFrom(events, i - 1, events[i].at), PROT_EXEC)

\* The copy phase is over and link goes on.
CopyDone == pc \in {"reloc", "protect", "entry", "irel", "reprotect", "return"}

\* The slot of an object: [start, start + valign).
SlotLo(n) == tls_ranges[n].start
SlotHi(n) == tls_ranges[n].start + tls_ranges[n].valign

\* C10: after the copy phase tls_primary <= tls_size, the primary's slot is
\* [T.len - valign, T.len), the slots are pairwise disjoint and inside
\* [0, T.len), and every other slot ends where the primary's starts or
\* below.
TlsLayout ==
    CopyDone =>
        /\ tls_primary <= tls_size
        /\ primary \in DOMAIN tls_ranges =>
              /\ SlotHi(primary) = tls.size
              /\ SlotLo(primary) >= 0
        /\ \A n \in DOMAIN tls_ranges :
              /\ 0 <= SlotLo(n) /\ SlotHi(n) <= tls.size
              /\ \A m \in (DOMAIN tls_ranges) \ {n} :
                    SlotHi(n) <= SlotLo(m) \/ SlotHi(m) <= SlotLo(n)
              /\ (n # primary /\ primary \in DOMAIN tls_ranges)
                    => SlotHi(n) <= SlotLo(primary)

\* S of a relocation of a mapped object, from the global symbol table: 0
\* for r_sym = 0 and for a name the table lacks.
ResolvedS(n, rel) ==
    IF rel.r_sym = 0 THEN 0
    ELSE LET name == Dynsyms(objects[n])[rel.r_sym + 1].st_name
         IN  IF name \in DOMAIN globals THEN globals[name] ELSE 0

\* The relocation stores a value in the first pass.
FirstPassType(r_type) ==
    r_type \in {"R_X86_64_64", "R_X86_64_GLOB_DAT", "R_X86_64_JUMP_SLOT",
                "R_X86_64_RELATIVE", "R_X86_64_TPOFF64"}

\* The value the table gives for a relocation of mapped object n.
TableValue(n, rel) ==
    LET B == mmaps[n].base
        A == IF rel.r_addend = << >> THEN 0 ELSE rel.r_addend[1]
        S == ResolvedS(n, rel)
        T == IF n \in DOMAIN tls_ranges THEN tls_ranges[n].start ELSE 0
    IN  CASE rel.r_type = "R_X86_64_64" -> (S + A) % WORD
          [] rel.r_type = "R_X86_64_GLOB_DAT" -> S
          [] rel.r_type = "R_X86_64_JUMP_SLOT" -> S
          [] rel.r_type = "R_X86_64_RELATIVE" -> (B + A) % WORD
          [] rel.r_type = "R_X86_64_TPOFF64" -> ((S + A) - T) % WORD

\* The stores of a phase at B + r_offset of a relocation of object n.
StoresAt(phase, n, rel) ==
    {i \in DOMAIN events :
        /\ events[i].what = "store" /\ events[i].phase = phase
        /\ events[i].obj = n
        /\ events[i].at = (mmaps[n].base + rel.r_offset) % WORD}

\* C11: every store of the first pass is the store of the table's value at
\* B + r_offset of a relocation of type 64, GLOB_DAT, JUMP_SLOT, RELATIVE or
\* TPOFF64; every store of the second pass is the store, at B + r_offset of
\* an IRELATIVE, of what the resolver at B + A just returned; and when link
\* has returned Ok every such relocation of every mapped object has had its
\* store, an IRELATIVE none in the first pass.
RelocFormulas ==
    /\ \A i \in DOMAIN events :
          (events[i].what = "store" /\ events[i].phase = "reloc") =>
              \E r \in DOMAIN Relocs(objects[events[i].obj]) :
                  LET rel == Relocs(objects[events[i].obj])[r] IN
                  /\ FirstPassType(rel.r_type)
                  /\ i \in StoresAt("reloc", events[i].obj, rel)
                  /\ events[i].len = 8
                  /\ events[i].val = TableValue(events[i].obj, rel)
    /\ \A i \in DOMAIN events :
          (events[i].what = "store" /\ events[i].phase = "irel") =>
              /\ i > 1
              /\ events[i - 1].what = "call"
              /\ events[i].val = events[i - 1].val
              /\ \E r \in DOMAIN Relocs(objects[events[i].obj]) :
                    LET rel == Relocs(objects[events[i].obj])[r] IN
                    /\ rel.r_type = "R_X86_64_IRELATIVE"
                    /\ i \in StoresAt("irel", events[i].obj, rel)
                    /\ events[i - 1].at =
                         (mmaps[events[i].obj].base
                            + (IF rel.r_addend = << >> THEN 0
                               ELSE rel.r_addend[1])) % WORD
    /\ Returned =>
          \A n \in DOMAIN mmaps :
              \A r \in DOMAIN Relocs(objects[n]) :
                  LET rel == Relocs(objects[n])[r] IN
                  /\ FirstPassType(rel.r_type) =>
                        \E i \in StoresAt("reloc", n, rel) :
                            events[i].val = TableValue(n, rel)
                  /\ rel.r_type = "R_X86_64_IRELATIVE" =>
                        /\ StoresAt("reloc", n, rel) = {}
                        /\ StoresAt("irel", n, rel) # {}

\* C11's case: link has returned after relocations of the types RELATIVE,
\* TPOFF64 (with a TLS range that does not start at 0), 64 with a resolved
\* symbol, and IRELATIVE.
RelocFormulasWitness ==
    /\ Returned
    /\ \E n \in DOMAIN mmaps :
          /\ n \in DOMAIN tls_ranges /\ tls_ranges[n].start > 0
          /\ \E r \in DOMAIN Relocs(objects[n]) :
                Relocs(objects[n])[r].r_type = "R_X86_64_TPOFF64"
          /\ \E r \in DOMAIN Relocs(objects[n]) :
                /\ Relocs(objects[n])[r].r_type = "R_X86_64_64"
                /\ ResolvedS(n, Relocs(objects[n])[r]) # 0
    /\ \E n \in DOMAIN mmaps :
          \E r \in DOMAIN Relocs(objects[n]) :
              Relocs(objects[n])[r].r_type = "R_X86_64_RELATIVE"
    /\ \E i \in DOMAIN events : events[i].phase = "irel" /\ events[i].what = "store"

\* The addresses at which the mapped objects define a name: base +
\* st_value of each GLOBAL definition with a value.
Definitions(name) ==
    UNION {{(mmaps[n].base + Dynsyms(objects[n])[j].st_value) % WORD :
              j \in {k \in DOMAIN Dynsyms(objects[n]) :
                       /\ Defines(Dynsyms(objects[n])[k])
                       /\ Dynsyms(objects[n])[k].st_name = name}} :
           n \in DOMAIN mmaps}

\* The relocation names a symbol of the object's table that has a name.
HasName(n, rel) ==
    /\ rel.r_sym > 0
    /\ rel.r_sym + 1 <= Len(Dynsyms(objects[n]))
    /\ Dynsyms(objects[n])[rel.r_sym + 1].st_name \notin {NoName, BadName}

NameOf(n, rel) == Dynsyms(objects[n])[rel.r_sym + 1].st_name

\* S is right for a relocation of object n: 0 for r_sym = 0 and for a name
\* no mapped object defines, else the address of a definition of the name
\* by a mapped object.
RightS(n, rel, sv) ==
    /\ rel.r_sym = 0 => sv = 0
    /\ HasName(n, rel) =>
          IF Definitions(NameOf(n, rel)) = {} THEN sv = 0
          ELSE sv \in Definitions(NameOf(n, rel))

\* C12: the S of every relocation the first pass comes to is the address,
\* defining base + st_value, of a GLOBAL definition of the name by a mapped
\* object, whether that object comes before or after in the order, and 0
\* for r_sym = 0 and for a name no mapped object defines; the GLOB_DAT and
\* JUMP_SLOT stores have stored such an S; and the step of a relocation
\* whose S is 0 for these reasons does not make link return an error: link
\* goes on, unless the store of the step faults.
SymbolOrderFree ==
    /\ [](pc = "reloc" =>
            /\ (CurRel.r_sym = 0 \/ HasName(Cur, CurRel)) =>
                  SymValue(CurSyms, globals, CurRel).kind = "Ok"
            /\ RightS(Cur, CurRel, SymValue(CurSyms, globals, CurRel).addr))
    /\ [](\A i \in DOMAIN events :
            (events[i].what = "store" /\ events[i].phase = "reloc") =>
                \A r \in DOMAIN Relocs(objects[events[i].obj]) :
                    LET rel == Relocs(objects[events[i].obj])[r] IN
                    (/\ rel.r_type \in {"R_X86_64_GLOB_DAT", "R_X86_64_JUMP_SLOT"}
                     /\ i \in StoresAt("reloc", events[i].obj, rel))
                        => RightS(events[i].obj, rel, events[i].val))
    /\ [][(/\ pc = "reloc"
           /\ \/ CurRel.r_sym = 0
              \/ HasName(Cur, CurRel) /\ Definitions(NameOf(Cur, CurRel)) = {})
             => (pc' = "done" => ret'.kind = "Fault")]_vars

\* C12's case: link has returned after an object stored the address of a
\* symbol that only an object later in the order defines, and after a
\* relocation of a name no mapped object defines.
SymbolOrderFreeWitness ==
    /\ Returned
    /\ \E n \in DOMAIN mmaps :
          \E r \in DOMAIN Relocs(objects[n]) :
              LET rel == Relocs(objects[n])[r] IN
              /\ rel.r_type = "R_X86_64_JUMP_SLOT"
              /\ HasName(n, rel)
              /\ \E i \in StoresAt("reloc", n, rel) :
                    \E m \in DOMAIN mmaps :
                        /\ StrLt(n, m)
                        /\ mmaps[m].base <= events[i].val
                        /\ events[i].val < mmaps[m].base + mmaps[m].size
    /\ \E n \in DOMAIN mmaps :
          \E r \in DOMAIN Relocs(objects[n]) :
              /\ HasName(n, Relocs(objects[n])[r])
              /\ Definitions(NameOf(n, Relocs(objects[n])[r])) = {}

\* The address lies in the mapping of an object or in the TLS buffer.
InLoadedMemory(x) ==
    \/ \E m \in DOMAIN mmaps :
          mmaps[m].base <= x /\ x < mmaps[m].base + mmaps[m].size
    \/ tls.base <= x /\ x < tls.base + tls.size

\* C13: when link has returned Ok, the S of every relocation whose name is
\* in the global symbol table lies in the mapping of some object or in the
\* TLS buffer.
SymbolsInside ==
    Returned =>
        \A n \in DOMAIN mmaps :
            \A r \in DOMAIN Relocs(objects[n]) :
                LET rel == Relocs(objects[n])[r] IN
                (HasName(n, rel) /\ NameOf(n, rel) \in DOMAIN globals)
                    => InLoadedMemory(globals[NameOf(n, rel)])

\* link has returned one of its errors, or has panicked where the start of
\* a TLS range underflows.
LinkError ==
    ret.kind \in {"MapFailed", "TlsMapFailed", "ParseFailed", "ReadFailed",
                  "WriteFailed", "WriteTlsFailed", "Panic", "MissingSymbol",
                  "MissingName", "ProtectFailed"}

\* C14: the step in which an error occurs ends link and does nothing that
\* comes after the error (the mapping whose symbols fail to decode was made
\* before); from then on link does nothing: no mapping, copy, store,
\* protection change or resolver call is added, and the mappings made
\* before stay as they are.
ErrorsAbort ==
    /\ [][(ret.kind = "Pending" /\ LinkError') =>
            /\ pc' = "done"
            /\ mmaps' = mmaps /\ globals' = globals /\ tls_ranges' = tls_ranges
            /\ \/ events' = events
               \/ /\ ret'.kind = "ParseFailed" /\ pc = "map"
                  /\ Len(events') = Len(events) + 1
                  /\ events'[Len(events')].what = "mmap"
                  /\ SubSeq(events', 1, Len(events)) = events]_vars
    /\ [][LinkError =>
            /\ events' = events /\ mmaps' = mmaps /\ tls' = tls
            /\ ret' = ret /\ pc' = "done"]_vars
    /\ [](LinkError => pc = "done")

\* C14's case: an mprotect of the first object failed while two objects
\* were mapped and copied; the second has had no protection change.
ErrorsAbortWitness ==
    /\ ret.kind = "ProtectFailed"
    /\ Cardinality(DOMAIN mmaps) = 2
    /\ \E n \in DOMAIN mmaps :
          \A i \in DOMAIN events :
              events[i].obj = n => events[i].what \in {"mmap", "copy", "tlscopy"}

\* The file range or the destination range of the PT_LOAD the copy loop
\* is at is out of bounds.
CopyOutOfBounds ==
    /\ pc = "copy"
    /\ CurPh.p_type = "PT_LOAD"
    /\ \/ CurPh.p_offset + CurPh.p_filesz > FileLen(objects[Cur])
       \/ CurPh.p_vaddr + CurPh.p_filesz > mmaps[Cur].size

\* C15: the page-rounded span of every PT_LOAD of every mapped object lies
\* inside the object's mapping; every range the copy phase has written for
\* a PT_LOAD starts at p_vaddr of the mapping, lies inside the mapping and
\* comes from inside the file; and at a PT_LOAD whose file range or
\* destination range is out of bounds link fails and writes nothing.
LayoutInvariant ==
    /\ [](\A n \in DOMAIN mmaps :
            \A h \in DOMAIN ProgramHeaders(objects[n]) :
                LET ph == ProgramHeaders(objects[n])[h] IN
                ph.p_type = "PT_LOAD" =>
                    /\ 0 <= Vaddr(ph)
                    /\ Vaddr(ph) + Vsize(ph) <= mmaps[n].size)
    /\ [](\A i \in DOMAIN events :
            events[i].what = "copy" =>
                /\ mmaps[events[i].obj].base <= events[i].at
                /\ events[i].at + events[i].len
                     <= mmaps[events[i].obj].base + mmaps[events[i].obj].size
                /\ events[i].val + events[i].len
                     <= FileLen(objects[events[i].obj])
                /\ \E h \in DOMAIN ProgramHeaders(objects[events[i].obj]) :
                      LET ph == ProgramHeaders(objects[events[i].obj])[h] IN
                      /\ ph.p_type = "PT_LOAD"
                      /\ events[i].at = mmaps[events[i].obj].base + ph.p_vaddr
                      /\ events[i].len = ph.p_filesz)
    /\ [][CopyOutOfBounds =>
            /\ pc' = "done"
            /\ ret'.kind \in {"ReadFailed", "WriteFailed"}
            /\ events' = events]_vars

\* C15's case: link has failed at a PT_LOAD whose destination range passes
\* the end of the mapping, after the PT_LOAD of another object was copied;
\* that object's PT_LOAD lies above virtual address 0.
LayoutInvariantWitness ==
    /\ ret.kind = "WriteFailed"
    /\ \E i \in DOMAIN events :
          /\ events[i].what = "copy"
          /\ events[i].at > mmaps[events[i].obj].base

\* A relocation write or a resolver call.
IsRelocation(e) == e.what = "call" \/ (e.what = "store" /\ e.phase \in {"reloc", "irel"})

\* Every PT_LOAD and PT_TLS image of every mapped object has been copied
\* within the first i events.
AllCopied(i) ==
    \A n \in DOMAIN mmaps :
        \A h \in DOMAIN ProgramHeaders(objects[n]) :
            LET ph == ProgramHeaders(objects[n])[h] IN
            /\ ph.p_type = "PT_LOAD" =>
                  \E j \in 1..i :
                      events[j] = Ev("copy", "copy", n,
                                     mmaps[n].base + ph.p_vaddr, ph.p_filesz,
                                     ph.p_offset)
            /\ ph.p_type = "PT_TLS" =>
                  \E j \in 1..i :
                      /\ events[j].what = "tlscopy" /\ events[j].obj = n
                      /\ events[j].len = ph.p_filesz
                      /\ events[j].val = ph.p_offset

\* C16: before each relocation write and each resolver call every PT_LOAD
\* and PT_TLS image of every mapped object has been copied, and no copy
\* comes after a relocation write or a resolver call.
CopyBeforeRelocate ==
    \A i \in DOMAIN events :
        IsRelocation(events[i]) =>
            /\ AllCopied(i - 1)
            /\ \A j \in i..Len(events) :
                  events[j].what \notin {"copy", "tlscopy"}

\* C16's case: an object has been relocated while a second mapped object,
\* later in the order, has PT_LOAD and PT_TLS images.
CopyBeforeRelocateWitness ==
    /\ \E i \in DOMAIN events : IsRelocation(events[i])
    /\ \E n \in DOMAIN mmaps :
          /\ n \in DOMAIN tls_ranges
          /\ \E m \in DOMAIN mmaps :
                /\ StrLt(m, n)
                /\ \E i \in DOMAIN events :
                      IsRelocation(events[i]) /\ events[i].obj = m

\* Event i is the store of an R_X86_64_TPOFF64 relocation.
IsTpoffStore(i) ==
    /\ events[i].what = "store" /\ events[i].phase = "reloc"
    /\ \E r \in DOMAIN Relocs(objects[events[i].obj]) :
          LET rel == Relocs(objects[events[i].obj])[r] IN
          /\ rel.r_type = "R_X86_64_TPOFF64"
          /\ i \in StoresAt("reloc", events[i].obj, rel)

\* Within the first i events the TLS region was mapped (tls_size and the
\* page of the TCB), then the first word of the TCB, which starts at
\* tls + tls_size, set to that address, then the thread pointer set to the
\* TCB.
ThreadPointerSet(i) ==
    \E j \in 1..i :
        /\ j + 2 <= i
        /\ events[j] = Ev("tls", "mmap", << >>, tls.base, tls.size + PAGE_SIZE,
                          PROT_READ + PROT_WRITE)
        /\ events[j + 1] = Ev("tls", "tcb", << >>, tls.base + tls.size, 8,
                              tls.base + tls.size)
        /\ events[j + 2] = Ev("tls", "setfs", << >>, tls.base + tls.size, 0, 0)
        /\ tls.size = tls_size

\* C17: before each store of a TPOFF64 relocation and each resolver call
\* the TLS region is allocated, the first word of the TCB holds tls +
\* tls_size and the thread pointer is set; and when the allocation of the
\* TLS has failed nothing is copied and no relocation applied.
ThreadPointerFirst ==
    /\ \A i \in DOMAIN events :
          (IsTpoffStore(i) \/ events[i].what = "call") => ThreadPointerSet(i - 1)
    /\ ret.kind = "TlsMapFailed" =>
          /\ pc = "done"
          /\ \A i \in DOMAIN events : events[i].what = "mmap"

\* C17's case: link has returned after a TPOFF64 store and a resolver call,
\* with a TLS that is not empty.
ThreadPointerFirstWitness ==
    /\ Returned
    /\ tls.size > 0
    /\ \E i \in DOMAIN events : IsTpoffStore(i)
    /\ \E i \in DOMAIN events : events[i].what = "call"

\* The relocation is of none of the six types link knows.
Unsupported(rel) ==
    ~FirstPassType(rel.r_type) /\ rel.r_type # "R_X86_64_IRELATIVE"

\* C18: the step of a relocation of an unknown type whose symbol is there
\* (r_sym = 0, or a symbol with a name) stores nothing, returns no error
\* and leaves link running; with a missing symbol or name it ends link
\* with that error; no store is ever made at the place of such a
\* relocation; and when link has returned Ok every mapped object, those
\* with such relocations too, has had its protection pass.
UnsupportedSkipped ==
    /\ [][(pc = "reloc" /\ Unsupported(CurRel)) =>
            IF CurRel.r_sym = 0 \/ HasName(Cur, CurRel)
            THEN /\ events' = events
                 /\ ret' = ret
                 /\ pc' \in {"reloc", "protect"}
            ELSE /\ pc' = "done"
                 /\ ret'.kind \in {"MissingSymbol", "MissingName", "ParseFailed"}
                 /\ events' = events]_vars
    /\ [](\A n \in DOMAIN mmaps :
            \A r \in DOMAIN Relocs(objects[n]) :
                Unsupported(Relocs(objects[n])[r]) =>
                    /\ StoresAt("reloc", n, Relocs(objects[n])[r]) = {}
                    /\ StoresAt("irel", n, Relocs(objects[n])[r]) = {})
    /\ [](Returned => FirstPassDone(Len(events)))

\* C18's case: link has returned the entry of a primary that has a
\* relocation of an unknown type.
UnsupportedSkippedWitness ==
    /\ Returned
    /\ \E r \in DOMAIN Relocs(objects[primary]) :
          Unsupported(Relocs(objects[primary])[r])

\* The events of one phase come object by object in name order.
InNameOrder ==
    \A i, j \in DOMAIN events :
        (/\ i < j
         /\ events[i].phase = events[j].phase
         /\ events[i].obj # << >> /\ events[j].obj # << >>)
            => ~StrLt(events[j].obj, events[i].obj)

\* The global symbol table after the scans of the first k mapped objects,
\* taken in name order at their bases.
RECURSIVE GlobalsOf(_)
GlobalsOf(k) ==
    IF k = 0 THEN EmptyStore
    ELSE LET n == SortedKeys(DOMAIN mmaps)[k]
         IN  ScanGlobals(GlobalsOf(k - 1), Dynsyms(objects[n]), 1,
                         mmaps[n].base).table

\* The PT_TLS sizes of the objects other than the primary that have a slot
\* and a name below n.
RECURSIVE TlsBelow(_, _)
TlsBelow(names, n) ==
    IF names = {} THEN 0
    ELSE LET m == CHOOSE x \in names : TRUE
         IN  (IF m # primary /\ StrLt(m, n)
              THEN TlsVsize(ProgramHeaders(objects[m])) ELSE 0)
             + TlsBelow(names \ {m}, n)

\* The PT_TLS size of the primary, 0 where the store lacks it.
TlsPrimaryOf ==
    IF primary \in DOMAIN objects
    THEN TlsVsize(ProgramHeaders(objects[primary])) ELSE 0

\* The slot of object n as the store, the primary and the TLS size give it.
SlotOf(n) ==
    IF n = primary
    THEN [index |-> 0, start |-> tls.size - tls_ranges[n].valign]
    ELSE [index |-> Cardinality({m \in (DOMAIN tls_ranges) \ {primary} :
                                   m = n \/ StrLt(m, n)}),
          start |-> tls.size - (TlsPrimaryOf + TlsBelow(DOMAIN tls_ranges, n)
                                + tls_ranges[n].valign)]

\* C19: what link computes is fixed by the contents of the store, the
\* primary and the bases mmap returned, whatever the order the store was
\* filled in: the objects are processed in name order in every phase; the
\* global symbol table is the one the scans of the mapped objects in name
\* order leave; every TLS slot has the index and the start its place in
\* name order gives it; every store of the first pass is the table's value
\* of a relocation of its object; and the entry of an Ok return is the
\* primary's base + e_entry.
LayoutDeterminism ==
    /\ InNameOrder
    /\ globals = GlobalsOf(Cardinality(DOMAIN mmaps))
    /\ \A n \in DOMAIN tls_ranges :
          /\ tls_ranges[n].index = SlotOf(n).index
          /\ tls_ranges[n].start = SlotOf(n).start
    /\ \A i \in DOMAIN events :
          (events[i].what = "store" /\ events[i].phase = "reloc") =>
              \E r \in DOMAIN Relocs(objects[events[i].obj]) :
                  LET rel == Relocs(objects[events[i].obj])[r] IN
                  /\ FirstPassType(rel.r_type)
                  /\ i \in StoresAt("reloc", events[i].obj, rel)
                  /\ events[i].val = TableValue(events[i].obj, rel)
    /\ Returned => ret.addr = Wrap(mmaps[primary].base + Entry(objects[primary]))

\* C19's case: link has returned Ok on a store of two mapped objects that
\* was filled against the name order, after a relocation store in an
\* object and with a TLS slot entered.
LayoutDeterminismWitness ==
    /\ Returned
    /\ Cardinality(DOMAIN mmaps) = 2
    /\ loaded # SortedKeys(DOMAIN objects)
    /\ DOMAIN tls_ranges # {}
    /\ \E i \in DOMAIN events :
          events[i].what = "store" /\ events[i].phase = "reloc"

----------------------------------------------------------------------------
(* Claims about the loader under fairness (SpecFair) *)

\* The bytes load_library(name) hands to load_data, "none" where it fails.
BlobOf(name) ==
    LET r == LoadLibrary(name, library_path, << >>)
    IN  IF r.err = Ok THEN r.frame.data ELSE "none"

\* The names DT_NEEDED leads to from a blob, by way of the search path.
RECURSIVE Reachable(_)
Reachable(data) ==
    UNION {{Libraries(data)[i]} \cup Reachable(BlobOf(Libraries(data)[i])) :
             i \in DOMAIN Libraries(data)}

\* The call is load(name, path) on an empty store, and the name it loads
\* under is not among the names its file leads to: the graph of names is
\* acyclic.
LoadOnEmpty ==
    /\ call.op = "load"
    /\ objs0 = EmptyStore
    /\ call.name \notin Reachable(CallBytes)

\* The opens of the call made for a name, and its inserts of the name.
OpensOf(name) ==
    {i \in DOMAIN fslog : fslog[i].op = "open" /\ fslog[i].name = name}
InsertsOf(name) == {i \in DOMAIN inslog : inslog[i] = name}

\* The turn of a library that the store has.
AtLoaded ==
    /\ ~Idle
    /\ Top.lib <= Len(Libraries(Top.data))
    /\ Libraries(Top.data)[Top.lib] \in DOMAIN objects

\* C20: a load(name, path) on an empty store, over an acyclic graph of
\* names, returns; while it runs, no name has more than one open and more
\* than one insert, and a name is inserted only after its one open; and in
\* every call, the turn of a library the store has makes no file system
\* operation, no insert and no nested call.
LoadTerminates ==
    /\ (LoadOnEmpty /\ ~Idle) ~> Idle
    /\ [](LoadOnEmpty =>
            \A name \in {call.name} \cup Reachable(CallBytes) :
                /\ Cardinality(OpensOf(name)) <= 1
                /\ Cardinality(InsertsOf(name)) <= Cardinality(OpensOf(name)))
    /\ [][AtLoaded =>
            /\ fslog' = fslog /\ inslog' = inslog /\ objects' = objects
            /\ Len(stack') = Len(stack)
            /\ stack'[Len(stack)].lib = Top.lib + 1]_vars

\* C20's case: load("a", "./a") on an empty store has returned Ok; b and c
\* were needed by a, and c by b as well, and each of the three was opened
\* and inserted.
LoadTerminatesWitness ==
    /\ LoadOnEmpty /\ Idle /\ result = Ok
    /\ call.name = <<"a">>
    /\ Libraries(CallBytes) = << <<"b">>, <<"c">> >>
    /\ <<"c">> \in Reachable(BlobOf(<<"b">>))
    /\ \A name \in {<<"a">>, <<"b">>, <<"c">>} :
          Cardinality(OpensOf(name)) = 1 /\ Cardinality(InsertsOf(name)) = 1

----------------------------------------------------------------------------
(* Claims about the stores of link (SpecLink) *)

\* Event i is a relocation's store, made or faulted, of either pass.
IsRelocStore(i) ==
    /\ events[i].what \in {"store", "fault"}
    /\ events[i].phase \in {"reloc", "irel"}

\* The 8 bytes at x lie inside the mapping of object n.
InsideMapping(n, x) ==
    /\ mmaps[n].base <= x
    /\ x + 8 <= mmaps[n].base + mmaps[n].size

\* C21: the 8 bytes of every relocation store of either pass, at
\* B + r_offset, lie inside [B, B + mapping size) of the object the
\* relocation belongs to.
RelocWritesInside ==
    \A i \in DOMAIN events :
        IsRelocStore(i) => InsideMapping(events[i].obj, events[i].at)

\* The object of event i has had an mprotect before the event.
ProtectedBefore(i) ==
    \E j \in 1..(i - 1) :
        events[j].what = "mprotect" /\ events[j].obj = events[i].obj

\* The protection the page of address x had when event i came.
ProtBefore(i, x) == ProtFrom(events, i - 1, x)

\* C22: every store of the first pass comes before the first mprotect of
\* its object, to a page that has the READ|WRITE of the mapping still, and
\* every IRELATIVE store of the second pass goes to a page whose
\* protection has WRITE.
StoresWritable ==
    \A i \in DOMAIN events :
        IsRelocStore(i) =>
            IF events[i].phase = "reloc"
            THEN /\ ~ProtectedBefore(i)
                 /\ ProtBefore(i, events[i].at) = PROT_READ + PROT_WRITE
            ELSE HasBit(ProtBefore(i, events[i].at), PROT_WRITE)

====
